---- MODULE Spec2Model ----
(***************************************************************************)
(* A model of the Cohort SPSC ring buffer (src/src/fifo.rs, CohortFifo).   *)
(*                                                                         *)
(* The buffer moves pairs of elements.  Three indices live in the struct:  *)
(* head (consumer), hw_tail (the tail word the accelerator sees) and       *)
(* sw_tail (the tail every software query reads).                          *)
(*                                                                         *)
(* Name resolution in try_push (fifo.rs:141): the call reads               *)
(*     self.set_tail((tail + 2) % self.buffer_size())                      *)
(* while the only tail value in scope is the local `sw_tail` (line 135)    *)
(* and the only tail setters are the two set_sw_tail definitions (lines    *)
(* 241-256).  The model reads the call as the software-tail setter applied *)
(* to the local read on line 135.  No statement of fifo.rs calls           *)
(* set_hw_tail, and try_pop holds no copy from hw_tail to sw_tail.         *)
(***************************************************************************)
EXTENDS Integers, Sequences, FiniteSets, TLC

VARIABLES
    capacity,     \* capacity given to new (buffer_size - 1)
    batch_size,   \* batch_size given to new
    head,         \* CohortFifo.head
    sw_tail,      \* CohortFifo.sw_tail
    hw_tail,      \* CohortFifo.hw_tail
    buffer,       \* storage, slots 0 .. capacity
    elem1,        \* the caller's first output slot of try_pop
    elem2,        \* the caller's second output slot of try_pop
    op,           \* the last operation that ran
    ret,          \* what it returned
    pushed,       \* history: the pairs of the successful pushes, in order
    popped,       \* history: the pairs of the successful pops, in order
    prod,         \* the producer thread: [pc, n]
    cons,         \* the consumer thread: [pc, tc, n]
    args,         \* <<capacity, batch_size>> given to the last constructor call
    cohort,       \* the Cohort: [st, reg, unreg], kernel calls counted
    iter,         \* the CohortFifoIter: [st, idx, remaining]
    yielded       \* history of the iterator: [start, total, items, nones]

vars == <<capacity, batch_size, head, sw_tail, hw_tail, buffer, elem1, elem2,
          op, ret, pushed, popped, prod, cons, args, cohort, iter, yielded>>

fifo == <<head, sw_tail, hw_tail, buffer>>
meta == <<capacity, batch_size>>
threads == <<prod, cons>>
life == <<args, cohort>>
walk == <<iter, yielded>>

(***************************************************************************)
(* Bounds.                                                                 *)
(***************************************************************************)
\* capacities 2, 4, .., 2 * MaxHalfCap
MaxHalfCap == 2
\* successful pushes in one run of the sequential specifications
MaxPush == 5
\* pairs each thread moves in the two-thread specifications
MaxPairs == 5

\* each constructor argument ranges over 0 .. MaxArg
MaxArg == 6
\* kernel calls made on one Cohort by hand, besides register and drop
MaxCalls == 2

\* payload values; storage is zero-initialised, so 0 is "never written"
Vals == {1, 2}

Capacities == {2 * k : k \in 1..MaxHalfCap}
BatchSizes(c) == {b \in 2..c : b % 2 = 0}

(***************************************************************************)
(* Queries (fifo.rs:177-206, 264-266).                                     *)
(***************************************************************************)
buffer_size == capacity + 1

\* is_full with the wrap of the tail side left out
is_full_at_nowrap(h, t) == h = t + 1

is_full_at(h, t) == (h % buffer_size) = ((t + 1) % buffer_size)

is_full == is_full_at(head, sw_tail)

\* is_empty written with the test of is_full
is_empty_at_asfull(h, t) == h = (t + 1) % buffer_size

is_empty_at(h, t) == h = t

is_empty == is_empty_at(head, sw_tail)

\* num_elems reads sw_tail twice: once in the comparison (tc) and once in the
\* subtraction (ts).  Within one thread both reads give the same value.
num_elems_at(h, tc, ts) ==
    IF h >= tc THEN h - ts ELSE capacity + h - ts

num_elems == num_elems_at(head, sw_tail, sw_tail)

(***************************************************************************)
(* Index setters (fifo.rs:222-256).                                        *)
(***************************************************************************)
\* set_head storing one slot short of the index it is given
set_head_short(h) == head' = (h + buffer_size - 1) % buffer_size

set_head(h) == head' = h

\* the tail setter storing one slot past the index it is given
set_tail_skip(t) == sw_tail' = (t + 1) % buffer_size

set_tail(t) == sw_tail' = t

(***************************************************************************)
(* Construction (fifo.rs:108-126): a valid (capacity, batch_size), zeroed  *)
(* storage, all three indices 0.                                           *)
(***************************************************************************)
Constructed ==
    /\ capacity \in Capacities
    /\ batch_size \in BatchSizes(capacity)
    /\ head = 0
    /\ sw_tail = 0
    /\ hw_tail = 0
    /\ buffer = [i \in 0..capacity |-> 0]

\* no CohortFifoIter has been created
NoIter ==
    /\ iter = [st |-> "none", idx |-> 0, remaining |-> 0]
    /\ yielded = [start |-> 0, total |-> 0, items |-> <<>>, nones |-> 0]

Idle ==
    /\ elem1 = 0
    /\ elem2 = 0
    /\ op = "none"
    /\ ret = "none"
    /\ pushed = <<>>
    /\ popped = <<>>
    /\ prod = [pc |-> "idle", n |-> 0]
    /\ cons = [pc |-> "idle", tc |-> 0, n |-> 0]
    /\ args = <<capacity, batch_size>>
    /\ cohort = [st |-> "none", reg |-> 0, unreg |-> 0]
    /\ NoIter

Init == Constructed /\ Idle

(***************************************************************************)
(* try_push (fifo.rs:129-144), one whole call.                             *)
(***************************************************************************)
try_push(e1, e2) ==
    /\ op' = "try_push"
    /\ IF is_full
       THEN /\ ret' = "Full"
            /\ UNCHANGED <<fifo, pushed>>
       ELSE /\ buffer' = [buffer EXCEPT ![sw_tail] = e1,
                                        ![(sw_tail + 1) % buffer_size] = e2]
            /\ set_tail((sw_tail + 2) % buffer_size)
            /\ ret' = "Ok"
            /\ pushed' = Append(pushed, <<e1, e2>>)
            /\ UNCHANGED <<head, hw_tail>>
    /\ UNCHANGED <<meta, life, walk, elem1, elem2, popped, threads>>

(***************************************************************************)
(* try_pop (fifo.rs:151-166), one whole call.                              *)
(***************************************************************************)
\* try_pop that first stores hw_tail into sw_tail, then tests and pops
try_pop_resync ==
    /\ op' = "try_pop"
    /\ sw_tail' = hw_tail
    /\ IF is_empty_at(head, hw_tail) \/ num_elems_at(head, hw_tail, hw_tail) = 1
       THEN /\ ret' = "Empty"
            /\ UNCHANGED <<head, hw_tail, buffer, elem1, elem2, popped>>
       ELSE /\ elem1' = buffer[head]
            /\ elem2' = buffer[(head + 1) % buffer_size]
            /\ set_head((head + 2) % buffer_size)
            /\ ret' = "Ok"
            /\ popped' = Append(popped, <<buffer[head],
                                          buffer[(head + 1) % buffer_size]>>)
            /\ UNCHANGED <<hw_tail, buffer>>
    /\ UNCHANGED <<meta, life, walk, pushed, threads>>

try_pop ==
    /\ op' = "try_pop"
    /\ IF is_empty \/ num_elems = 1
       THEN /\ ret' = "Empty"
            /\ UNCHANGED <<fifo, elem1, elem2, popped>>
       ELSE /\ elem1' = buffer[head]
            /\ elem2' = buffer[(head + 1) % buffer_size]
            /\ set_head((head + 2) % buffer_size)
            /\ ret' = "Ok"
            /\ popped' = Append(popped, <<buffer[head],
                                          buffer[(head + 1) % buffer_size]>>)
            /\ UNCHANGED <<sw_tail, hw_tail, buffer>>
    /\ UNCHANGED <<meta, life, walk, pushed, threads>>

(***************************************************************************)
(* Spec: one buffer driven by whole try_push and try_pop calls, as the     *)
(* unit tests of fifo.rs drive it.                                         *)
(***************************************************************************)
TryPush ==
    /\ Len(pushed) < MaxPush
    /\ \E e1 \in Vals, e2 \in Vals : try_push(e1, e2)

TryPop == try_pop

Next == TryPush \/ TryPop

Spec == Init /\ [][Next]_vars

(***************************************************************************)
(* RecvSpec: the receiver buffer of a Cohort.  Its producer is the         *)
(* accelerator, which stores elements into the storage and advances the    *)
(* hardware tail word one element at a time; software only pops.           *)
(***************************************************************************)
hw_produce(v) ==
    /\ (hw_tail + 1) % buffer_size # head
    /\ buffer' = [buffer EXCEPT ![hw_tail] = v]
    /\ hw_tail' = (hw_tail + 1) % buffer_size
    /\ op' = "hw"
    /\ UNCHANGED <<meta, life, walk, head, sw_tail, elem1, elem2, ret, pushed, popped,
                   threads>>

HwProduce == \E v \in Vals : hw_produce(v)

RecvTryPop ==
    /\ Len(popped) < MaxPush
    /\ try_pop

RecvNext == HwProduce \/ RecvTryPop

RecvSpec == Init /\ [][RecvNext]_vars

(***************************************************************************)
(* IdxSpec: try_pop as a function of the indices.  head and the tail that  *)
(* try_pop consults are drawn from [0, buffer_size); try_pop is applied.   *)
(***************************************************************************)
IdxInit ==
    /\ capacity \in Capacities
    /\ batch_size \in BatchSizes(capacity)
    /\ head \in 0..capacity
    /\ sw_tail \in 0..capacity
    /\ hw_tail = sw_tail
    /\ buffer = [i \in 0..capacity |-> 0]
    /\ Idle

IdxTryPop ==
    /\ Len(popped) < MaxPush
    /\ try_pop

IdxNext == IdxTryPop

IdxSpec == IdxInit /\ [][IdxNext]_vars

(***************************************************************************)
(* ConcSpec: one producer thread calling push and one consumer thread      *)
(* calling pop on the same buffer (fifo.rs:146-149, 168-175, and the       *)
(* threads of tests::test_two_threads, fifo.rs:400-424).  A step is one    *)
(* load of the index the other thread writes, one slot write, one slot     *)
(* read or one index store.  A thread's loads of the index it alone writes *)
(* are taken together with the step that follows them.                     *)
(***************************************************************************)
\* the i-th pair of the producer loop (fifo.rs:408-409, 418-419)
PairOf(i) == <<i % 64, (i + 1) % 64>>

ConcInit ==
    /\ Constructed
    /\ elem1 = 0
    /\ elem2 = 0
    /\ op = "none"
    /\ ret = "none"
    /\ pushed = <<>>
    /\ popped = <<>>
    /\ prod = [pc |-> "check", n |-> 0]
    /\ cons = [pc |-> "empty", tc |-> 0, n |-> 0]
    /\ args = <<capacity, batch_size>>
    /\ cohort = [st |-> "none", reg |-> 0, unreg |-> 0]
    /\ NoIter

\* push -> try_push: is_full() loads head; Full sends push around its loop
P_Check ==
    /\ prod.pc = "check"
    /\ prod' = IF is_full_at(head, sw_tail)
               THEN prod
               ELSE [prod EXCEPT !.pc = "write1"]
    /\ UNCHANGED <<meta, life, walk, fifo, elem1, elem2, op, ret, pushed, popped, cons>>

P_Write1 ==
    /\ prod.pc = "write1"
    /\ buffer' = [buffer EXCEPT ![sw_tail] = PairOf(prod.n)[1]]
    /\ prod' = [prod EXCEPT !.pc = "write2"]
    /\ UNCHANGED <<meta, life, walk, head, sw_tail, hw_tail, elem1, elem2, op, ret,
                   pushed, popped, cons>>

P_Write2 ==
    /\ prod.pc = "write2"
    /\ buffer' = [buffer EXCEPT ![(sw_tail + 1) % buffer_size] =
                                    PairOf(prod.n)[2]]
    /\ prod' = [prod EXCEPT !.pc = "store"]
    /\ UNCHANGED <<meta, life, walk, head, sw_tail, hw_tail, elem1, elem2, op, ret,
                   pushed, popped, cons>>

P_Store ==
    /\ prod.pc = "store"
    /\ set_tail((sw_tail + 2) % buffer_size)
    /\ pushed' = Append(pushed, PairOf(prod.n))
    /\ prod' = [prod EXCEPT !.n = prod.n + 1,
                            !.pc = IF prod.n + 1 = MaxPairs
                                   THEN "done" ELSE "check"]
    /\ UNCHANGED <<meta, life, walk, head, hw_tail, buffer, elem1, elem2, op, ret,
                   popped, cons>>

Producer == P_Check \/ P_Write1 \/ P_Write2 \/ P_Store

\* pop -> try_pop: is_empty() loads sw_tail; Empty sends pop around its loop
C_Empty ==
    /\ cons.pc = "empty"
    /\ cons' = IF is_empty_at(head, sw_tail)
               THEN cons
               ELSE [cons EXCEPT !.pc = "cmp"]
    /\ UNCHANGED <<meta, life, walk, fifo, elem1, elem2, op, ret, pushed, popped, prod>>

\* num_elems(): the load of sw_tail in the comparison (fifo.rs:201)
C_Cmp ==
    /\ cons.pc = "cmp"
    /\ cons' = [cons EXCEPT !.pc = "sub", !.tc = sw_tail]
    /\ UNCHANGED <<meta, life, walk, fifo, elem1, elem2, op, ret, pushed, popped, prod>>

\* num_elems(): the load of sw_tail in the subtraction (fifo.rs:202, 204)
C_Sub ==
    /\ cons.pc = "sub"
    /\ cons' = IF num_elems_at(head, cons.tc, sw_tail) = 1
               THEN [cons EXCEPT !.pc = "empty", !.tc = 0]
               ELSE [cons EXCEPT !.pc = "read1", !.tc = 0]
    /\ UNCHANGED <<meta, life, walk, fifo, elem1, elem2, op, ret, pushed, popped, prod>>

C_Read1 ==
    /\ cons.pc = "read1"
    /\ elem1' = buffer[head]
    /\ cons' = [cons EXCEPT !.pc = "read2"]
    /\ UNCHANGED <<meta, life, walk, fifo, elem2, op, ret, pushed, popped, prod>>

C_Read2 ==
    /\ cons.pc = "read2"
    /\ elem2' = buffer[(head + 1) % buffer_size]
    /\ cons' = [cons EXCEPT !.pc = "store"]
    /\ UNCHANGED <<meta, life, walk, fifo, elem1, op, ret, pushed, popped, prod>>

C_Store ==
    /\ cons.pc = "store"
    /\ set_head((head + 2) % buffer_size)
    /\ popped' = Append(popped, <<elem1, elem2>>)
    /\ cons' = [cons EXCEPT !.n = cons.n + 1,
                            !.pc = IF cons.n + 1 = MaxPairs
                                   THEN "done" ELSE "empty"]
    /\ UNCHANGED <<meta, life, walk, sw_tail, hw_tail, buffer, elem1, elem2, op, ret,
                   pushed, prod>>

Consumer == C_Empty \/ C_Cmp \/ C_Sub \/ C_Read1 \/ C_Read2 \/ C_Store

ConcNext == Producer \/ Consumer

ConcSpec == ConcInit /\ [][ConcNext]_vars

\* both threads keep being scheduled (std::thread::scope, fifo.rs:404-423)
ConcFairSpec ==
    ConcInit /\ [][ConcNext]_vars /\ WF_vars(Producer) /\ WF_vars(Consumer)

(***************************************************************************)
(* LifeSpec: construction and the life of a Cohort.  CohortFifo::new is    *)
(* called directly (as the unit tests do) or through Cohort::new and       *)
(* Cohort::register; a live Cohort takes explicit cohort_mn_register and   *)
(* cohort_mn_unregister calls and is dropped at the end.  cohort.reg and   *)
(* cohort.unreg count the syscalls that reach the kernel.                  *)
(***************************************************************************)
\* new_result with the capacity compared by <= instead of <
new_result_le(c, b) ==
    IF b < 2 THEN "BatchSizeTooSmall"
    ELSE IF b % 2 # 0 THEN "BatchSizeNotEven"
    ELSE IF c <= b THEN "CapacityLessThanBatchSize"
    ELSE IF c % 2 # 0 THEN "CapacityNotEven"
    ELSE "Ok"

\* new_result returning the older Capacity(usize) variant of error.rs:8
new_result_oldvariant(c, b) ==
    IF b < 2 THEN "BatchSizeTooSmall"
    ELSE IF b % 2 # 0 THEN "BatchSizeNotEven"
    ELSE IF c < b THEN "CapacityLessThanBatchSize"
    ELSE IF c % 2 # 0 THEN "Capacity"
    ELSE "Ok"

\* the checks of CohortFifo::new (fifo.rs:93-107), in the order of the code
new_result(c, b) ==
    IF b < 2 THEN "BatchSizeTooSmall"
    ELSE IF b % 2 # 0 THEN "BatchSizeNotEven"
    ELSE IF c < b THEN "CapacityLessThanBatchSize"
    ELSE IF c % 2 # 0 THEN "CapacityNotEven"
    ELSE "Ok"

\* no CohortFifo exists
NoFifo ==
    /\ capacity = -1
    /\ batch_size = -1
    /\ head = -1
    /\ sw_tail = -1
    /\ hw_tail = -1
    /\ buffer = <<>>

\* a step after which no CohortFifo exists (an Err return, a panic, a drop)
no_fifo ==
    /\ capacity' = -1
    /\ batch_size' = -1
    /\ head' = -1
    /\ sw_tail' = -1
    /\ hw_tail' = -1
    /\ buffer' = <<>>

\* the struct CohortFifo::new builds (fifo.rs:108-126)
construct(c, b) ==
    /\ capacity' = c
    /\ batch_size' = b
    /\ head' = 0
    /\ sw_tail' = 0
    /\ hw_tail' = 0
    /\ buffer' = [i \in 0..c |-> 0]

LifeInit ==
    /\ NoFifo
    /\ elem1 = 0
    /\ elem2 = 0
    /\ op = "none"
    /\ ret = "none"
    /\ pushed = <<>>
    /\ popped = <<>>
    /\ prod = [pc |-> "idle", n |-> 0]
    /\ cons = [pc |-> "idle", tc |-> 0, n |-> 0]
    /\ args = <<0, 0>>
    /\ cohort = [st |-> "none", reg |-> 0, unreg |-> 0]
    /\ NoIter

\* CohortFifo::new(c, b) called directly (fifo.rs:92-127)
fifo_new(c, b) ==
    /\ cohort.st = "none"
    /\ op' = "new"
    /\ args' = <<c, b>>
    /\ ret' = new_result(c, b)
    /\ IF new_result(c, b) = "Ok" THEN construct(c, b) ELSE no_fifo
    /\ UNCHANGED <<walk, elem1, elem2, pushed, popped, threads, cohort>>

\* Cohort::new (lib.rs:68-83): both CohortFifo::new results are unwrapped,
\* so an Err panics; the sender and the receiver take the same arguments and
\* the fifo variables stand for either of them
cohort_new(c, b) ==
    /\ cohort.st = "none"
    /\ op' = "Cohort::new"
    /\ args' = <<c, b>>
    /\ IF new_result(c, b) = "Ok"
       THEN /\ construct(c, b)
            /\ ret' = "Cohort"
            /\ cohort' = [cohort EXCEPT !.st = "live"]
       ELSE /\ no_fifo
            /\ ret' = "panic"
            /\ cohort' = [cohort EXCEPT !.st = "panicked"]
    /\ UNCHANGED <<walk, elem1, elem2, pushed, popped, threads>>

\* Cohort::register (lib.rs:93-97): Cohort::new, then cohort_mn_register
cohort_register(c, b) ==
    /\ cohort.st = "none"
    /\ op' = "Cohort::register"
    /\ args' = <<c, b>>
    /\ IF new_result(c, b) = "Ok"
       THEN /\ construct(c, b)
            /\ ret' = "Cohort"
            /\ cohort' = [cohort EXCEPT !.st = "live", !.reg = cohort.reg + 1]
       ELSE /\ no_fifo
            /\ ret' = "panic"
            /\ cohort' = [cohort EXCEPT !.st = "panicked"]
    /\ UNCHANGED <<walk, elem1, elem2, pushed, popped, threads>>

\* Cohort::cohort_mn_register (lib.rs:100-110)
cohort_mn_register ==
    /\ cohort.st = "live"
    /\ op' = "cohort_mn_register"
    /\ ret' = "status"
    /\ cohort' = [cohort EXCEPT !.reg = cohort.reg + 1]
    /\ UNCHANGED <<walk, meta, fifo, args, elem1, elem2, pushed, popped, threads>>

\* Cohort::cohort_mn_unregister (lib.rs:115-117)
cohort_mn_unregister ==
    /\ cohort.st = "live"
    /\ op' = "cohort_mn_unregister"
    /\ ret' = "status"
    /\ cohort' = [cohort EXCEPT !.unreg = cohort.unreg + 1]
    /\ UNCHANGED <<walk, meta, fifo, args, elem1, elem2, pushed, popped, threads>>

\* impl Drop for Cohort (lib.rs:173-178), then the drop of both buffers
\* (fifo.rs:272-278)
drop ==
    /\ cohort.st = "live"
    /\ op' = "drop"
    /\ ret' = "none"
    /\ cohort' = [cohort EXCEPT !.st = "dropped", !.unreg = cohort.unreg + 1]
    /\ no_fifo
    /\ UNCHANGED <<walk, args, elem1, elem2, pushed, popped, threads>>

FifoNew == \E c \in 0..MaxArg, b \in 0..MaxArg : fifo_new(c, b)

CohortNew == \E c \in 0..MaxArg, b \in 0..MaxArg : cohort_new(c, b)

CohortRegister == \E c \in 0..MaxArg, b \in 0..MaxArg : cohort_register(c, b)

MnRegister ==
    /\ cohort.reg + cohort.unreg < MaxCalls + 1
    /\ cohort_mn_register

MnUnregister ==
    /\ cohort.reg + cohort.unreg < MaxCalls + 1
    /\ cohort_mn_unregister

Drop == drop

LifeNext ==
    FifoNew \/ CohortNew \/ CohortRegister \/ MnRegister \/ MnUnregister \/ Drop

LifeSpec == LifeInit /\ [][LifeNext]_vars

(***************************************************************************)
(* IterSpec: a CohortFifoIter over one buffer (fifo.rs:35-61).  The file   *)
(* holds the iterator's struct, next and len, and no function that builds  *)
(* one; fifo_iter builds it as the description of iter() says: at the      *)
(* current tail, with num_elems() items to come.  The iterator borrows the *)
(* buffer shared, and try_push and try_pop take &self, so both may run     *)
(* while the iterator is alive.                                            *)
(***************************************************************************)
\* pushes in one run of IterSpec
MaxIterPush == 3
\* calls of next() answered None in one run of IterSpec
MaxNone == 2

\* the caller pushes the pairs <<1, 2>>, <<2, 3>>, .. in turn
IterTryPush ==
    /\ Len(pushed) < MaxIterPush
    /\ try_push(PairOf(Len(pushed) + 1)[1], PairOf(Len(pushed) + 1)[2])

IterTryPop == try_pop

\* iter(): CohortFifoIter { fifo: self, idx: tail, remaining: num_elems() }
fifo_iter ==
    /\ iter.st = "none"
    /\ op' = "iter"
    /\ ret' = "iter"
    /\ iter' = [st |-> "live", idx |-> sw_tail, remaining |-> num_elems]
    /\ yielded' = [start |-> sw_tail, total |-> num_elems, items |-> <<>>,
                   nones |-> 0]
    /\ UNCHANGED <<meta, life, fifo, elem1, elem2, pushed, popped, threads>>

\* next() handing out the index after the step instead of the one it read
iter_next_postinc ==
    /\ iter.st = "live"
    /\ op' = "next"
    /\ IF iter.remaining = 0
       THEN /\ ret' = "None"
            /\ yielded' = [yielded EXCEPT !.nones = @ + 1]
            /\ UNCHANGED iter
       ELSE /\ iter' = [iter EXCEPT !.idx = (iter.idx + 1) % buffer_size,
                                    !.remaining = @ - 1]
            /\ ret' = "Some"
            /\ yielded' = [yielded EXCEPT
                               !.items = Append(@, <<iter'.idx,
                                                     buffer[iter.idx]>>)]
    /\ UNCHANGED <<meta, life, fifo, elem1, elem2, pushed, popped, threads>>

\* CohortFifoIter::next (fifo.rs:44-54)
iter_next ==
    /\ iter.st = "live"
    /\ op' = "next"
    /\ IF iter.remaining = 0
       THEN /\ ret' = "None"
            /\ yielded' = [yielded EXCEPT !.nones = @ + 1]
            /\ UNCHANGED iter
       ELSE /\ iter' = [iter EXCEPT !.idx = (iter.idx + 1) % buffer_size,
                                    !.remaining = @ - 1]
            /\ ret' = "Some"
            /\ yielded' = [yielded EXCEPT
                               !.items = Append(@, <<iter.idx,
                                                     buffer[iter.idx]>>)]
    /\ UNCHANGED <<meta, life, fifo, elem1, elem2, pushed, popped, threads>>

\* CohortFifoIter::len (fifo.rs:58-60)
iter_len ==
    /\ iter.st = "live"
    /\ op' = "len"
    /\ ret' = ToString(iter.remaining)
    /\ UNCHANGED <<meta, life, fifo, walk, elem1, elem2, pushed, popped,
                   threads>>

FifoIter == fifo_iter

IterNextCall ==
    /\ yielded.nones < MaxNone
    /\ iter_next

IterLen == iter_len

IterNext == IterTryPush \/ IterTryPop \/ FifoIter \/ IterNextCall \/ IterLen

IterSpec == Init /\ [][IterNext]_vars

(***************************************************************************)
(* Derived quantities used by the properties.                              *)
(***************************************************************************)
\* elements between head and the software tail, walking forward
Unread == (sw_tail + buffer_size - head) % buffer_size

\* elements pushed and not yet published to the hardware tail
Unpublished == (sw_tail + buffer_size - hw_tail) % buffer_size

IsPrefix(s, t) ==
    /\ Len(s) <= Len(t)
    /\ \A k \in 1..Len(s) : s[k] = t[k]

(***************************************************************************)
(* C1.  Strict per-pair FIFO: the k-th successful try_pop returns exactly  *)
(* the pair given to the k-th successful try_push, in the same element     *)
(* order, for every k and across wraparounds of the indices.               *)
(***************************************************************************)
C1_StrictFifo ==
    /\ IsPrefix(popped, pushed)
    /\ (op = "try_pop" /\ ret = "Ok") =>
           <<elem1, elem2>> = pushed[Len(popped)]

\* a successful pop after head has gone around the storage twice, with
\* pairs that differ from one another and within themselves
C1_Witness ==
    /\ op = "try_pop"
    /\ ret = "Ok"
    /\ 2 * Len(popped) >= 2 * buffer_size
    /\ \E k \in 1..Len(popped) : popped[k][1] # popped[k][2]
    /\ \E j, k \in 1..Len(popped) : popped[j] # popped[k]

(***************************************************************************)
(* C4.  try_pop succeeds whenever at least one whole pair is unread        *)
(* (also when the buffer is full and the tail has wrapped below head): it  *)
(* returns Ok with the oldest unread pair and advances head by 2 modulo    *)
(* buffer_size.                                                            *)
(***************************************************************************)
C4_PopWhenPairUnread ==
    [][(op' = "try_pop" /\ Unread >= 2) =>
           /\ ret' = "Ok"
           /\ <<elem1', elem2'>> = pushed[Len(popped) + 1]
           /\ head' = (head + 2) % buffer_size]_vars

(***************************************************************************)
(* C5.  Capacity bound: the buffer never holds more than capacity unread   *)
(* elements; try_push returns Full exactly when capacity elements are      *)
(* held, so from empty exactly capacity/2 consecutive pushes succeed,      *)
(* is_full then holds and the next try_push returns Full.                  *)
(***************************************************************************)
C5_CapacityBound ==
    /\ Unread = 2 * (Len(pushed) - Len(popped))
    /\ Unread <= capacity
    /\ is_full <=> (Unread = capacity)
    /\ (op = "try_push" /\ ret = "Full") => Unread = capacity
    /\ (popped = <<>> /\ op = "try_push" /\ ret = "Ok") =>
           2 * Len(pushed) <= capacity

\* capacity/2 pushes from empty with no pop, then a push that returned Full
C5_Witness ==
    /\ popped = <<>>
    /\ 2 * Len(pushed) = capacity
    /\ is_full
    /\ op = "try_push"
    /\ ret = "Full"

(***************************************************************************)
(* C6.  try_pop on an empty buffer (head = tail) returns Empty and leaves  *)
(* head, both tails, the stored elements and the output slots unchanged.   *)
(***************************************************************************)
C6_PopEmpty ==
    [][(op' = "try_pop" /\ head = sw_tail) =>
           /\ ret' = "Empty"
           /\ UNCHANGED <<head, sw_tail, hw_tail, buffer, elem1, elem2>>]_vars

\* an Empty answer on a buffer that was filled and drained before
C6_Witness ==
    /\ op = "try_pop"
    /\ ret = "Empty"
    /\ head = sw_tail
    /\ head # 0
    /\ Len(popped) >= 2

(***************************************************************************)
(* C7.  try_push on a full buffer returns Full and changes nothing: head,  *)
(* sw_tail, hw_tail and every slot stay as they were, so the buffer is     *)
(* still full and the pairs still to be popped are those pushed before.    *)
(***************************************************************************)
C7_PushFull ==
    [][(op' = "try_push" /\ Unread = capacity) =>
           /\ ret' = "Full"
           /\ UNCHANGED <<head, sw_tail, hw_tail, buffer, pushed, popped>>
           /\ is_full']_vars

\* a Full answer on a buffer whose tail has wrapped below head
C7_Witness ==
    /\ op = "try_push"
    /\ ret = "Full"
    /\ is_full
    /\ sw_tail < head

(***************************************************************************)
(* C10.  Batching gap: in every reachable state of a sender buffer with    *)
(* batch size B, the pushed-but-unpublished count                          *)
(* (sw_tail - hw_tail) mod buffer_size lies in [0, B).                     *)
(***************************************************************************)
C10_BatchGap == Unpublished \in 0..(batch_size - 1)

(***************************************************************************)
(* Two-thread bookkeeping: elements the producer has stored and elements   *)
(* the consumer has loaded, counted from the threads' positions.           *)
(***************************************************************************)
NWritten ==
    2 * prod.n + (CASE prod.pc = "write2" -> 1
                    [] prod.pc = "store" -> 2
                    [] OTHER -> 0)

NRead ==
    2 * cons.n + (CASE cons.pc = "read2" -> 1
                    [] cons.pc = "store" -> 2
                    [] OTHER -> 0)

(***************************************************************************)
(* C2.  Concurrent safety: under every interleaving of the producer's and  *)
(* the consumer's steps, every pair returned to the consumer equals the    *)
(* pair pushed at the same ordinal position; the consumer never reads a    *)
(* slot the producer has not finished writing, and the producer never      *)
(* overwrites a slot the consumer has not yet read.                        *)
(***************************************************************************)
C2_ConcurrentSafety ==
    /\ \A k \in 1..Len(popped) : popped[k] = PairOf(k - 1)
    /\ IsPrefix(popped, pushed)
    /\ cons.pc = "read2" => elem1 = PairOf(cons.n)[1]
    /\ cons.pc = "store" => <<elem1, elem2>> = PairOf(cons.n)
    /\ NRead <= NWritten
    /\ NWritten <= NRead + buffer_size

\* the consumer has read a pair out of slots that have been reused, while
\* the producer is in the middle of writing a later pair
C2_Witness ==
    /\ cons.pc = "store"
    /\ prod.pc = "write2"
    /\ 2 * cons.n >= buffer_size
    /\ prod.n > cons.n
    /\ popped # <<>>

(***************************************************************************)
(* C3.  Concurrent completion: with the producer calling push N times and  *)
(* the consumer calling pop N times, under weak fairness of both threads   *)
(* both eventually finish all N calls, and the buffer is then empty.       *)
(***************************************************************************)
C3_Completion ==
    <>(prod.pc = "done" /\ cons.pc = "done" /\ is_empty)

HwUnread == (hw_tail + buffer_size - head) % buffer_size

C9_PopAfterHwAdvance ==
    [][(op' = "try_pop" /\ HwUnread >= 2) =>
           /\ ret' = "Ok"
           /\ elem1' = buffer[head]
           /\ elem2' = buffer[(head + 1) % buffer_size]
           /\ head' = (head + 2) % buffer_size]_vars

(***************************************************************************)
(* C11.  Batched publication: every successful try_push advances sw_tail   *)
(* by 2; hw_tail changes only on the push that brings the unpublished      *)
(* count to batch_size, and on that step it is set to the new sw_tail;     *)
(* pushes that do not complete a batch leave hw_tail unchanged.            *)
(***************************************************************************)
C11_BatchedPublication ==
    [][(op' = "try_push" /\ ret' = "Ok") =>
           /\ sw_tail' = (sw_tail + 2) % buffer_size
           /\ IF Unpublished + 2 = batch_size
              THEN hw_tail' = sw_tail'
              ELSE hw_tail' = hw_tail]_vars

(***************************************************************************)
(* C12.  is_full() and is_empty() are never both true; the buffer is       *)
(* empty right after construction and after draining, and full right       *)
(* after filling.                                                          *)
(***************************************************************************)
C12_FullEmptyExclusive ==
    /\ ~(is_full /\ is_empty)
    /\ (Len(pushed) = Len(popped)) => (is_empty /\ ~is_full)
    /\ (2 * (Len(pushed) - Len(popped)) = capacity) => (is_full /\ ~is_empty)

\* full again after a pop has moved head off slot 0
C12_Witness ==
    /\ 2 * (Len(pushed) - Len(popped)) = capacity
    /\ Len(popped) >= 1
    /\ head # 0
    /\ is_full

(***************************************************************************)
(* C13.  Round trip, as stated: after pushing capacity/2 pairs and popping *)
(* capacity/2 pairs from a fresh buffer, the buffer is empty and head and  *)
(* tail are back at their initial value 0.                                 *)
(***************************************************************************)
C13_RoundTripToInitial ==
    (2 * Len(pushed) = capacity /\ Len(popped) = Len(pushed)) =>
        (is_empty /\ head = 0 /\ sw_tail = 0)

(***************************************************************************)
(* C13, amended.  After pushing capacity/2 pairs and popping capacity/2    *)
(* pairs from a fresh buffer, the buffer is empty and head and sw_tail     *)
(* both equal capacity (the indices have moved capacity slots in a ring    *)
(* of capacity + 1).                                                       *)
(***************************************************************************)
C13_RoundTrip ==
    (2 * Len(pushed) = capacity /\ Len(popped) = Len(pushed)) =>
        (is_empty /\ head = capacity /\ sw_tail = capacity)

\* the last pop of a round trip through a buffer of more than one pair
C13_Witness ==
    /\ 2 * Len(pushed) = capacity
    /\ Len(popped) = Len(pushed)
    /\ capacity >= 4
    /\ op = "try_pop"
    /\ ret = "Ok"

(***************************************************************************)
(* C14.  Construction accepts exactly the valid parameters: new(capacity,  *)
(* batch_size) returns Ok if and only if capacity is even, batch_size >= 2 *)
(* and even, and capacity >= batch_size; on success capacity() is the      *)
(* supplied capacity, buffer_size is capacity + 1, and head, sw_tail and   *)
(* hw_tail are 0 (the buffer is empty).                                    *)
(***************************************************************************)
ValidArgs(c, b) == c % 2 = 0 /\ b >= 2 /\ b % 2 = 0 /\ c >= b

Violates(r, c, b) ==
    CASE r = "BatchSizeTooSmall" -> b < 2
      [] r = "BatchSizeNotEven" -> b % 2 # 0
      [] r = "CapacityLessThanBatchSize" -> c < b
      [] r = "CapacityNotEven" -> c % 2 # 0
      [] OTHER -> FALSE

C15_NewReportsRule ==
    (op = "new") =>
        LET c == args[1]
            b == args[2]
            bOk == b >= 2 /\ b % 2 = 0
        IN  /\ (~ValidArgs(c, b)) => (ret # "Ok" /\ Violates(ret, c, b) /\ NoFifo)
            /\ (b < 2) => ret = "BatchSizeTooSmall"
            /\ (b >= 2 /\ b % 2 # 0) => ret = "BatchSizeNotEven"
            /\ (bOk /\ c < b /\ c % 2 = 0) => ret = "CapacityLessThanBatchSize"
            /\ (bOk /\ c >= b /\ c % 2 # 0) => ret = "CapacityNotEven"

\* the rejected construction capacity = 5 with a valid batch size
C15_Witness ==
    /\ op = "new"
    /\ args = <<5, 4>>
    /\ ret = "CapacityNotEven"
    /\ NoFifo

(***************************************************************************)
(* C16.  Unregistration happens exactly once per Cohort lifetime: over     *)
(* any sequence of construction, explicit cohort_mn_unregister calls and   *)
(* destruction, the unregister call reaches the kernel exactly one time.   *)
(***************************************************************************)
C16_UnregisterOnce == (cohort.st = "dropped") => (cohort.unreg = 1)

C18_CohortTypedError ==
    (op \in {"Cohort::new", "Cohort::register"}
        /\ new_result(args[1], args[2]) # "Ok") =>
        /\ ret = new_result(args[1], args[2])
        /\ cohort.st # "panicked"
        /\ cohort.reg = 0

(***************************************************************************)
(* C19.  Index range and monotonic advance: head, sw_tail and hw_tail lie  *)
(* in [0, buffer_size); a successful try_push moves the tail from t to     *)
(* (t + 2) mod buffer_size and writes exactly slots t and t + 1; a         *)
(* successful try_pop moves head from h to (h + 2) mod buffer_size and     *)
(* reads exactly slots h and h + 1; no operation moves an index backwards. *)
(***************************************************************************)
IndexRange ==
    /\ head \in 0..(buffer_size - 1)
    /\ sw_tail \in 0..(buffer_size - 1)
    /\ hw_tail \in 0..(buffer_size - 1)

Forward(old, new) == (new + buffer_size - old) % buffer_size

C19_IndexAdvance ==
    [][/\ IndexRange
       /\ IndexRange'
       /\ (op' = "try_push" /\ ret' = "Ok") =>
              /\ sw_tail' = (sw_tail + 2) % buffer_size
              /\ buffer'[sw_tail] = pushed'[Len(pushed')][1]
              /\ buffer'[(sw_tail + 1) % buffer_size] = pushed'[Len(pushed')][2]
              /\ \A i \in 0..capacity :
                     (i # sw_tail /\ i # (sw_tail + 1) % buffer_size) =>
                         buffer'[i] = buffer[i]
       /\ (op' = "try_pop" /\ ret' = "Ok") =>
              /\ head' = (head + 2) % buffer_size
              /\ elem1' = buffer[head]
              /\ elem2' = buffer[(head + 1) % buffer_size]
              /\ buffer' = buffer
       /\ Forward(head, head') \in {0, 2}
       /\ Forward(sw_tail, sw_tail') \in {0, 2}
       /\ Forward(hw_tail, hw_tail') \in {0, batch_size}]_vars

\* a successful push whose second slot is past the wrap of the storage
C19_Witness ==
    /\ op = "try_push"
    /\ ret = "Ok"
    /\ sw_tail = 1
    /\ Len(popped) >= 1

(***************************************************************************)
(* C20.  num_elems() is the forward distance from tail to head modulo      *)
(* buffer_size: it returns (head - sw_tail) mod buffer_size, both when     *)
(* head >= sw_tail and in the wrapped case head < sw_tail.                 *)
(***************************************************************************)
C20_NumElems == num_elems = (head + buffer_size - sw_tail) % buffer_size

(***************************************************************************)
(* C21.  The FIFO iterator is finite and exact: created over a buffer, it  *)
(* starts at the current tail slot, yields exactly num_elems() items as    *)
(* (slot_index, value) with slot indices increasing by 1 modulo            *)
(* buffer_size, reports len() equal to the number of items still to come,  *)
(* and returns None on every call after those items are exhausted.         *)
(***************************************************************************)
ToCome == yielded.total - Len(yielded.items)

C21_IteratorExact ==
    [][/\ (op' = "iter") =>
              /\ iter'.idx = sw_tail
              /\ yielded'.total = num_elems
              /\ yielded'.items = <<>>
       /\ (iter'.st = "live") =>
              /\ Len(yielded'.items) <= yielded'.total
              /\ \A k \in 1..Len(yielded'.items) :
                     yielded'.items[k][1] =
                         (yielded'.start + k - 1) % buffer_size
       /\ (op' = "next" /\ ToCome > 0) =>
              /\ ret' = "Some"
              /\ Len(yielded'.items) = Len(yielded.items) + 1
              /\ yielded'.items[Len(yielded'.items)][2] =
                     buffer[yielded'.items[Len(yielded'.items)][1]]
       /\ (op' = "next" /\ ToCome = 0) =>
              /\ ret' = "None"
              /\ yielded'.items = yielded.items
       /\ (op' = "len") => ret' = ToString(ToCome)
       /\ (yielded.nones > 0 /\ op' = "next") => ret' = "None"]_vars

\* a second None after an iteration of two items that went around the end
\* of the storage
C21_Witness ==
    /\ op = "next"
    /\ ret = "None"
    /\ yielded.nones = 2
    /\ yielded.total = 2
    /\ Len(yielded.items) = 2
    /\ yielded.items[2][1] < yielded.items[1][1]
    /\ yielded.items[1][2] # 0

(***************************************************************************)
(* C22.  Pair parity: with only the pair operations in use, in every       *)
(* reachable state the occupancy (tail - head) mod buffer_size is an even  *)
(* number in [0, capacity]; whenever is_full() is false at least 2 slots   *)
(* are free, so a successful try_push never overwrites an unread element;  *)
(* whenever is_empty() is false at least 2 elements are unread.            *)
(***************************************************************************)
\* the unread slots, walking forward from head, hold the pairs pushed and
\* not yet popped
UnreadIntact ==
    \A k \in (Len(popped) + 1)..Len(pushed) :
        /\ buffer[(head + 2 * (k - Len(popped) - 1)) % buffer_size] =
               pushed[k][1]
        /\ buffer[(head + 2 * (k - Len(popped) - 1) + 1) % buffer_size] =
               pushed[k][2]

C22_PairParity ==
    /\ Unread % 2 = 0
    /\ Unread \in 0..capacity
    /\ (~is_full) => capacity - Unread >= 2
    /\ (~is_empty) => Unread >= 2
    /\ Len(pushed) - Len(popped) = Unread \div 2
    /\ UnreadIntact

\* a successful push into a buffer that is neither full nor empty
\* afterwards, with the tail wrapped below head
C22_Witness ==
    /\ op = "try_push"
    /\ ret = "Ok"
    /\ ~is_full
    /\ ~is_empty
    /\ sw_tail < head
    /\ Unread = 2

(***************************************************************************)
(* C23.  Unregister only follows register: every unregister call a Cohort  *)
(* issues to the kernel is preceded by a register call of that same        *)
(* Cohort; a Cohort built with new and dropped without ever being          *)
(* registered issues no unregister call.                                   *)
(***************************************************************************)
C23_UnregisterAfterRegister ==
    /\ (cohort.unreg > 0) => (cohort.reg > 0)
    /\ (cohort.st = "dropped" /\ cohort.reg = 0) => (cohort.unreg = 0)

(***************************************************************************)
(* C24.  The batch tail is never flushed: with batch size B, once the      *)
(* producer has made K successful pushes in total and stops, hw_tail       *)
(* covers the first B * floor(2K / B) elements and no more; when 2K is not *)
(* a multiple of B the trailing 2K mod B elements stay unpublished         *)
(* (hw_tail # sw_tail).                                                    *)
(***************************************************************************)
Published == batch_size * ((2 * Len(pushed)) \div batch_size)

C24_BatchTailNotFlushed ==
    /\ hw_tail = Published % buffer_size
    /\ ((2 * Len(pushed)) % batch_size # 0) => (hw_tail # sw_tail)

====
